---- MODULE Spec2Model ----
(***************************************************************************)
(* pymodular/modules/linalg.py: the matrix classifier                      *)
(* auto_determine_solver and the LinSolve module (forward solve, adjoint   *)
(* sensitivities).                                                         *)
(*                                                                         *)
(* Python values: None/True/False are the strings "None", "True", "False". *)
(* A number is <<a, b, d>>, the complex rational (a + b*i)/d in lowest     *)
(* terms with d > 0, so that equal numbers are equal tuples.               *)
(***************************************************************************)
EXTENDS Integers, Sequences, FiniteSets, TLC

\* ------------------------------------------------------------------ numbers

Abs(n) == IF n < 0 THEN -n ELSE n

RECURSIVE GCD(_, _)
GCD(m, n) == IF n = 0 THEN m ELSE GCD(n, m % n)

\* (a + b*i)/d in lowest terms, d > 0
Norm(a, b, d) ==
    LET s == IF d < 0 THEN -1 ELSE 1
        g == GCD(GCD(Abs(a), Abs(b)), Abs(d))
    IN  <<(s * a) \div g, (s * b) \div g, (s * d) \div g>>

Cx(a, b) == <<a, b, 1>>
Zero == Cx(0, 0)

CAdd(x, y) == Norm(x[1] * y[3] + y[1] * x[3], x[2] * y[3] + y[2] * x[3], x[3] * y[3])
CNeg(x) == <<-x[1], -x[2], x[3]>>
CSub(x, y) == CAdd(x, CNeg(y))
CMul(x, y) == Norm(x[1] * y[1] - x[2] * y[2], x[1] * y[2] + x[2] * y[1], x[3] * y[3])
CConj(x) == <<x[1], -x[2], x[3]>>
CReal(x) == Norm(x[1], 0, x[3])
\* n / |y|^2 for y # 0
CQuot(n, y) == Norm(n[1] * y[3] * y[3], n[2] * y[3] * y[3], n[3] * (y[1] * y[1] + y[2] * y[2]))
\* x / y for y # 0: x * conj(y) / |y|^2
CDiv(x, y) == CQuot(CMul(x, CConj(y)), y)
IsRealValue(x) == x[2] = 0

CImag(x) == Norm(x[2], 0, x[3])
\* |x|^2 as a number
CAbs2(x) == CMul(x, CConj(x))

\* f[1] + ... + f[k]
CSum(f, k) ==
    LET S[i \in 0..k] == IF i = 0 THEN Cx(0, 0) ELSE CAdd(S[i - 1], f[i])
    IN  S[k]

\* vectors are sequences of numbers
VScale(k, v) == [i \in 1..Len(v) |-> CMul(k, v[i])]
VSub(v, w) == [i \in 1..Len(v) |-> CSub(v[i], w[i])]
VNeg(v) == [i \in 1..Len(v) |-> CNeg(v[i])]
VReal(v) == [i \in 1..Len(v) |-> CReal(v[i])]
VImag(v) == [i \in 1..Len(v) |-> CImag(v[i])]
VConj(v) == [i \in 1..Len(v) |-> CConj(v[i])]
\* np.vdot(v, w) = sum conj(v[i]) * w[i]
VDot(v, w) == CSum([i \in 1..Len(v) |-> CMul(CConj(v[i]), w[i])], Len(v))
\* M * v for the rows M
MatVec(M, v) == [i \in 1..Len(M) |-> CSum([j \in 1..Len(v) |-> CMul(M[i][j], v[j])], Len(v))]
TransposeRows(M) == [i \in 1..Len(M[1]) |-> [j \in 1..Len(M) |-> M[j][i]]]

\* numpy's ordering of complex numbers against 0: by real part, then imaginary
GtZero(x) == x[1] > 0 \/ (x[1] = 0 /\ x[2] > 0)
LtZero(x) == x[1] < 0 \/ (x[1] = 0 /\ x[2] < 0)

\* ----------------------------------------------------------------- matrices
\* A matrix: [sparse, cplx (complex dtype), n (rows), m (columns), e (rows of numbers)]

Opt == {"None", "True", "False"}
PyBool(b) == IF b THEN "True" ELSE "False"

NoMatrix == [sparse |-> FALSE, cplx |-> FALSE, n |-> 0, m |-> 0, e |-> <<>>]

\* np.tril(A)[i][j] / np.triu(A)[i][j]
tril(A, i, j) == IF j <= i THEN A.e[i][j] ELSE Zero
triu(A, i, j) == IF j >= i THEN A.e[i][j] ELSE Zero

\* np.allclose(A, np.tril(A)) / np.allclose(A, np.triu(A)): the entries compared
\* differ by the entry itself or by 0, and an entry of the model is 0 or of modulus >= 1
allclose_tril(A) == \A i \in 1..A.n, j \in 1..A.m : A.e[i][j] = tril(A, i, j)
allclose_triu(A) == \A i \in 1..A.n, j \in 1..A.m : A.e[i][j] = triu(A, i, j)

matrix_is_diagonal(A) ==
    \A i \in 1..A.n, j \in 1..A.m : i # j => A.e[i][j] = Zero
matrix_is_symmetric(A) ==
    \A i \in 1..A.n, j \in 1..A.m : A.e[i][j] = A.e[j][i]
matrix_is_hermitian(A) ==
    \A i \in 1..A.n, j \in 1..A.m : A.e[i][j] = CConj(A.e[j][i])

\* np.alltrue(A.diagonal() > 0) or np.alltrue(A.diagonal() < 0)
DiagonalUniformSign(A) ==
    \/ \A i \in 1..A.n : GtZero(A.e[i][i])
    \/ \A i \in 1..A.n : LtZero(A.e[i][i])

\* ------------------------------------------------- auto_determine_solver

issparse(A) == A.sparse
issquare(A) == A.n = A.m
iscomplexobj(A) == A.cplx

\* A constructed solver: its class and the keyword arguments it was given
Solver(cls, sym, herm, pd) ==
    [cls |-> cls, symmetric |-> sym, hermitian |-> herm, positive_definite |-> pd]
Plain(cls) == Solver(cls, "NA", "NA", "NA")
Raised(exc) == Solver(exc, "NA", "NA", "NA")

\* a variant that detects the diagonal structure whatever override was passed
DiagonalFlagDetected(A, isdiagonal) == PyBool(matrix_is_diagonal(A))

\* lines 41-43: the value of isdiagonal tested at line 44
DiagonalFlag(A, isdiagonal) ==
    IF isdiagonal = "None" THEN PyBool(matrix_is_diagonal(A)) ELSE isdiagonal

\* lines 49-50 and 54-55: the values tested at lines 51 and 56
LowerFlag(A, islowertriangular) ==
    IF islowertriangular = "None"
    THEN (IF issparse(A) THEN "False" ELSE PyBool(allclose_tril(A)))
    ELSE islowertriangular
UpperFlag(A, isuppertriangular) ==
    IF isuppertriangular = "None"
    THEN (IF issparse(A) THEN "False" ELSE PyBool(allclose_triu(A)))
    ELSE isuppertriangular

\* a variant without the assertion of line 77: disagreeing overrides are both kept
SymmetryFlagsUnasserted(A, ishermitian, issymmetric) ==
    [ok |-> TRUE,
     ishermitian |-> IF ishermitian # "None" THEN ishermitian
                     ELSE IF ~iscomplexobj(A) /\ issymmetric # "None" THEN issymmetric
                     ELSE IF iscomplexobj(A) THEN PyBool(matrix_is_hermitian(A))
                     ELSE PyBool(matrix_is_symmetric(A)),
     issymmetric |-> IF issymmetric # "None" THEN issymmetric
                     ELSE IF ~iscomplexobj(A) /\ ishermitian # "None" THEN ishermitian
                     ELSE PyBool(matrix_is_symmetric(A))]

\* lines 63-81: the Hermitian and symmetric flags, or the failed assertion
SymmetryFlags(A, ishermitian, issymmetric) ==
    IF iscomplexobj(A)
    THEN [ok |-> TRUE,
          ishermitian |-> IF ishermitian = "None" THEN PyBool(matrix_is_hermitian(A))
                          ELSE ishermitian,
          issymmetric |-> IF issymmetric = "None" THEN PyBool(matrix_is_symmetric(A))
                          ELSE issymmetric]
    ELSE IF ishermitian = "None" /\ issymmetric = "None"
         THEN [ok |-> TRUE,
               ishermitian |-> PyBool(matrix_is_symmetric(A)),
               issymmetric |-> PyBool(matrix_is_symmetric(A))]
    ELSE IF ishermitian # "None" /\ issymmetric # "None"
         THEN [ok |-> ishermitian = issymmetric,
               ishermitian |-> ishermitian, issymmetric |-> issymmetric]
    ELSE IF ishermitian = "None"
         THEN [ok |-> TRUE, ishermitian |-> issymmetric, issymmetric |-> issymmetric]
    ELSE [ok |-> TRUE, ishermitian |-> ishermitian, issymmetric |-> ishermitian]

\* a variant that prefers the CVXOPT Cholesky to the scikit one
SparseChoiceCVXOPTFirst(A, f, ispositivedefinite, defined) ==
    IF defined.Pardiso
    THEN Solver("SolverSparsePardiso", f.issymmetric, f.ishermitian, ispositivedefinite)
    ELSE IF f.ishermitian = "True" /\ DiagonalUniformSign(A) /\ defined.CVXOPT
         THEN Plain("SolverSparseCholeskyCVXOPT")
    ELSE IF f.ishermitian = "True" /\ DiagonalUniformSign(A) /\ defined.Scikit
         THEN Plain("SolverSparseCholeskyScikit")
    ELSE Plain("SolverSparseLU")

\* lines 83-97
SparseChoice(A, f, ispositivedefinite, defined) ==
    IF defined.Pardiso
    THEN Solver("SolverSparsePardiso", f.issymmetric, f.ishermitian, ispositivedefinite)
    ELSE IF f.ishermitian = "True" /\ DiagonalUniformSign(A) /\ defined.Scikit
         THEN Plain("SolverSparseCholeskyScikit")
    ELSE IF f.ishermitian = "True" /\ DiagonalUniformSign(A) /\ defined.CVXOPT
         THEN Plain("SolverSparseCholeskyCVXOPT")
    ELSE Plain("SolverSparseLU")

\* a variant that gives every Hermitian matrix Cholesky, whatever its diagonal
DenseChoiceNoDiagonalTest(A, f) ==
    IF f.ishermitian = "True" THEN Plain("SolverDenseCholesky")
    ELSE IF f.issymmetric = "True"
         THEN Solver("SolverDenseLDL", "NA", f.ishermitian, "NA")
    ELSE Plain("SolverDenseLU")

\* lines 99-110
DenseChoice(A, f) ==
    IF f.ishermitian = "True"
    THEN (IF DiagonalUniformSign(A)
          THEN Plain("SolverDenseCholesky")
          ELSE Solver("SolverDenseLDL", "NA", f.ishermitian, "NA"))
    ELSE IF f.issymmetric = "True"
         THEN Solver("SolverDenseLDL", "NA", f.ishermitian, "NA")
    ELSE Plain("SolverDenseLU")

\* lines 83-110, after the assertion of line 77
BySymmetry(A, f, ispositivedefinite, defined) ==
    IF ~f.ok THEN Raised("AssertionError")
    ELSE IF issparse(A) THEN SparseChoice(A, f, ispositivedefinite, defined)
    ELSE DenseChoice(A, f)

\* a variant that dispatches on the lower-triangular flag of lines 49-52
auto_determine_solver_triangular(A, isdiagonal, islowertriangular, isuppertriangular, ishermitian, issymmetric, ispositivedefinite, defined) ==
    IF ~issquare(A) THEN Plain("SolverDenseQR")
    ELSE IF DiagonalFlag(A, isdiagonal) = "True" THEN Plain("SolverDiagonal")
    ELSE IF LowerFlag(A, islowertriangular) = "True" THEN Plain("SolverLowerTriangular")
    ELSE BySymmetry(A, SymmetryFlags(A, ishermitian, issymmetric), ispositivedefinite, defined)

\* lines 19-110: the solver returned, or the exception raised
auto_determine_solver(A, isdiagonal, islowertriangular, isuppertriangular, ishermitian, issymmetric, ispositivedefinite, defined) ==
    IF ~issquare(A) THEN Plain("SolverDenseQR")
    ELSE IF DiagonalFlag(A, isdiagonal) = "True" THEN Plain("SolverDiagonal")
    ELSE BySymmetry(A, SymmetryFlags(A, ishermitian, issymmetric), ispositivedefinite, defined)

\* The locals islowertriangular, isuppertriangular (lines 49-57) and ishermitian,
\* issymmetric (lines 63-81) when the function returns or raises ("NA": not reached)
Locals(A, isdiagonal, islowertriangular, isuppertriangular, ishermitian, issymmetric) ==
    IF ~issquare(A) \/ DiagonalFlag(A, isdiagonal) = "True"
    THEN [islowertriangular |-> "NA", isuppertriangular |-> "NA",
          ishermitian |-> "NA", issymmetric |-> "NA"]
    ELSE [islowertriangular |-> LowerFlag(A, islowertriangular),
          isuppertriangular |-> UpperFlag(A, isuppertriangular),
          ishermitian |-> SymmetryFlags(A, ishermitian, issymmetric).ishermitian,
          issymmetric |-> SymmetryFlags(A, ishermitian, issymmetric).issymmetric]

\* ------------------------------------------------ the linear solver family
\* A signal value holding one vector or several columns:
\* [cplx (complex dtype), ndim (1 or 2), cols (the columns)]

NoVector == [cplx |-> FALSE, ndim |-> 0, cols |-> <<>>]
SNeg(x) == [x EXCEPT !.cols = [c \in 1..Len(x.cols) |-> VNeg(x.cols[c])]]
\* np.real, np.imag: real dtype
SReal(x) == [x EXCEPT !.cplx = FALSE, !.cols = [c \in 1..Len(x.cols) |-> VReal(x.cols[c])]]
SImag(x) == [x EXCEPT !.cplx = FALSE, !.cols = [c \in 1..Len(x.cols) |-> VImag(x.cols[c])]]

\* determinant of the 2 x 2 rows M
Det(M) == CSub(CMul(M[1][1], M[2][2]), CMul(M[1][2], M[2][1]))
Singular(A) == Det(A.e) = Zero
\* the x with M x = b, for 2 x 2 rows M of nonzero determinant
LinearSolve(M, b) ==
    <<CDiv(CSub(CMul(b[1], M[2][2]), CMul(M[1][2], b[2])), Det(M)),
      CDiv(CSub(CMul(M[1][1], b[2]), CMul(M[2][1], b[1])), Det(M))>>

\* self.solver: a solver of the family, bare or inside the caching wrapper, with the
\* wrapper's tolerance, last factorized matrix, cache of adjoint solves (pairs
\* <<right-hand side, solution>>) and whether its latest update factorized
SolverObject(wrapped, solver, tol, mat, cache) ==
    [wrapped |-> wrapped, solver |-> solver, tol |-> tol, mat |-> mat, cache |-> cache,
     factorized |-> FALSE]
BareSolver(solver) == SolverObject(FALSE, solver, Zero, NoMatrix, {})
NoSolver == BareSolver(Plain("None"))

\* LDAWrapper(solver, tol=...): nothing factorized, nothing cached
LDADefaultTol == Norm(1, 0, 100000)
LDAWrapper(solver, tol) == SolverObject(TRUE, solver, tol, NoMatrix, {})

\* LDAWrapper.update(mat): factorize only a matrix that differs from the last one
\* factorized; a new factorization empties the cache of adjoint solves
update(w, mat) ==
    IF mat = w.mat THEN [w EXCEPT !.factorized = FALSE]
    ELSE [w EXCEPT !.mat = mat, !.cache = {}, !.factorized = TRUE]

\* LDAWrapper.solve(rhs): A x = rhs, column by column
solve(w, rhs) ==
    [cplx |-> rhs.cplx \/ w.mat.cplx, ndim |-> rhs.ndim,
     cols |-> [c \in 1..Len(rhs.cols) |-> LinearSolve(w.mat.e, rhs.cols[c])]]

\* x <= tol^2 * y for reals x, y >= 0 and a tolerance tol = 1/T: x*T*T <= y, computed
\* without the product T*T
WithinTolerance(x, y, tol) == x[1] * y[3] <= ((y[1] * x[3]) \div tol[3]) \div tol[3]

\* rhs is k*b within the relative tolerance: |rhs - k*b| <= tol * |rhs|, k = <b,rhs>/<b,b>
DependenceFactor(b, rhs) == CDiv(VDot(b, rhs), VDot(b, b))
Norm2(v) == VDot(v, v)
LinearlyDependent(b, rhs, tol) ==
    /\ VDot(b, b) # Zero
    /\ WithinTolerance(Norm2(VSub(rhs, VScale(DependenceFactor(b, rhs), b))), Norm2(rhs), tol)

\* a cached pair whose right-hand side col depends on
CachedFor(w, col) == CHOOSE e \in w.cache : LinearlyDependent(e[1], col, w.tol)
\* col served from the cached pair e, and col served by the genuine solution x
Served(w, col, e) ==
    [cache |-> w.cache, x |-> VScale(DependenceFactor(e[1], col), e[2]), genuine |-> 0]
Solved(w, col, x) == [cache |-> w.cache \cup {<<col, x>>}, x |-> x, genuine |-> 1]

\* one column of LDAWrapper.adjoint: the scaled cached solution when the column depends
\* on a cached right-hand side, else a genuine solve of A^T x = column, which is cached
AdjointColumn(w, col) ==
    IF \E e \in w.cache : LinearlyDependent(e[1], col, w.tol)
    THEN Served(w, col, CachedFor(w, col))
    ELSE Solved(w, col, LinearSolve(TransposeRows(w.mat.e), col))

\* the columns done so far (p) and one more (c)
WithColumn(p, c) ==
    [w |-> [p.w EXCEPT !.cache = c.cache], xs |-> Append(p.xs, c.x),
     genuine |-> p.genuine + c.genuine]
NextColumn(p, col) == WithColumn(p, AdjointColumn(p.w, col))

\* the first k columns, in order: [w (the wrapper afterwards), xs, genuine]
AdjointColumns(w, cols, k) ==
    LET F[i \in 0..k] ==
            IF i = 0 THEN [w |-> w, xs |-> <<>>, genuine |-> 0]
            ELSE NextColumn(F[i - 1], cols[i])
    IN  F[k]

AdjointResult(w, rhs, r) ==
    [w |-> r.w, genuine |-> r.genuine,
     x |-> [cplx |-> rhs.cplx \/ w.mat.cplx, ndim |-> rhs.ndim, cols |-> r.xs]]

\* LDAWrapper.adjoint(rhs): [w (the wrapper afterwards), x, genuine (solves performed)]
adjoint(w, rhs) == AdjointResult(w, rhs, AdjointColumns(w, rhs.cols, Len(rhs.cols)))

\* ------------------------------------------------------------------ LinSolve

\* LinSolve._prepare
prepare(dep_tol, hermitian, symmetric, solver) ==
    [dep_tol |-> dep_tol, ishermitian |-> hermitian, issymmetric |-> symmetric,
     solver |-> solver, issparse |-> "unset", iscomplex |-> "unset", u |-> NoVector]

\* lines 130-135: self.ishermitian after the detections of _response
HermitianFlag(self, mat) ==
    IF ~iscomplexobj(mat) /\ self.issymmetric # "None" THEN self.issymmetric
    ELSE IF self.ishermitian = "None" THEN PyBool(matrix_is_hermitian(mat))
    ELSE self.ishermitian

\* a variant that asks the classifier in every forward call
NeedsSolverAlways(self) == TRUE

\* line 138: the classifier is asked
NeedsSolver(self) == self.solver.solver.cls = "None"
\* line 140: the solver is not an LDAWrapper yet
NeedsWrapper(self) == ~self.solver.wrapped

\* a variant that wraps the solver anew in every forward call
DetermineSolverRewrapped(self, mat, defined) ==
    IF NeedsSolver(self)
    THEN LDAWrapper(auto_determine_solver(mat, "None", "None", "None", HermitianFlag(self, mat), "None", "None", defined), LDADefaultTol)
    ELSE LDAWrapper(self.solver.solver, LDADefaultTol)

\* lines 137-141: self.solver, determined and wrapped
DetermineSolver(self, mat, defined) ==
    IF NeedsSolver(self)
    THEN LDAWrapper(auto_determine_solver(mat, "None", "None", "None", HermitianFlag(self, mat), "None", "None", defined), LDADefaultTol)
    ELSE IF NeedsWrapper(self) THEN LDAWrapper(self.solver.solver, LDADefaultTol)
    ELSE self.solver

\* a variant that calls update(mat) only while the wrapper holds no factorization
FactorizedOnce(self, mat, defined) ==
    [self EXCEPT !.issparse = PyBool(issparse(mat)),
                 !.iscomplex = PyBool(iscomplexobj(mat)),
                 !.ishermitian = HermitianFlag(self, mat),
                 !.solver = IF DetermineSolver(self, mat, defined).mat = NoMatrix
                            THEN update(DetermineSolver(self, mat, defined), mat)
                            ELSE self.solver]

\* lines 130-144: self after the detections, the choice of the solver and update(mat)
Factorized(self, mat, defined) ==
    [self EXCEPT !.issparse = PyBool(issparse(mat)),
                 !.iscomplex = PyBool(iscomplexobj(mat)),
                 !.ishermitian = HermitianFlag(self, mat),
                 !.solver = update(DetermineSolver(self, mat, defined), mat)]

\* LinSolve._response: self afterwards; self.u is what it returns
Solved_u(f, rhs) == [f EXCEPT !.u = solve(f.solver, rhs)]
response(self, mat, rhs, defined) == Solved_u(Factorized(self, mat, defined), rhs)

\* the value of a DyadCarrier or of a dense array
DyadCarrier(u, v) == [kind |-> "DyadCarrier", e |-> <<>>, u |-> u, v |-> v]
DenseArray(e) == [kind |-> "ndarray", e |-> e, u |-> <<>>, v |-> <<>>]
NoArray == [kind |-> "None", e |-> <<>>, u |-> <<>>, v |-> <<>>]

\* np.einsum("iB,jB->ij", -lam, np.conj(u))
einsum_iB_jB(lam, u) ==
    [i \in 1..Len(lam.cols[1]) |-> [j \in 1..Len(u.cols[1]) |->
        CSum([B \in 1..Len(u.cols) |-> CMul(CNeg(lam.cols[B][i]), CConj(u.cols[B][j]))],
             Len(u.cols))]]
\* a variant with the two indices exchanged: np.outer(np.conj(u), -lam)
outerExchanged(lam, u) ==
    [i \in 1..Len(lam.cols[1]) |-> [j \in 1..Len(u.cols[1]) |->
        CMul(CNeg(lam.cols[1][j]), CConj(u.cols[1][i]))]]

\* np.outer(-lam, np.conj(u))
outer(lam, u) ==
    [i \in 1..Len(lam.cols[1]) |-> [j \in 1..Len(u.cols[1]) |->
        CMul(CNeg(lam.cols[1][i]), CConj(u.cols[1][j]))]]
RealRows(e) == [i \in 1..Len(e) |-> VReal(e[i])]

\* lines 155-167: the sensitivity to the matrix
MatrixSensitivity(self, lam) ==
    IF self.issparse = "True"
    THEN (IF self.iscomplex # "True" /\ (self.u.cplx \/ lam.cplx)
          THEN DyadCarrier(<<SNeg(SReal(lam)), SNeg(SImag(lam))>>, <<SReal(self.u), SImag(self.u)>>)
          ELSE DyadCarrier(<<SNeg(lam)>>, <<self.u>>))
    ELSE IF self.u.ndim > 1
         THEN DenseArray(IF self.iscomplex # "True" THEN RealRows(einsum_iB_jB(lam, self.u))
                         ELSE einsum_iB_jB(lam, self.u))
    ELSE DenseArray(IF self.iscomplex # "True" THEN RealRows(outer(lam, self.u))
                    ELSE outer(lam, self.u))

\* line 169: the sensitivity to the right-hand side
RhsSensitivity(rhs, lam) == IF ~rhs.cplx THEN SReal(lam) ELSE lam

\* LinSolve._sensitivity: [self (afterwards), lam, dmat, db, genuine]
Sensitivities(self, rhs, a) ==
    [self |-> [self EXCEPT !.solver = a.w], lam |-> a.x, genuine |-> a.genuine,
     dmat |-> MatrixSensitivity(self, a.x), db |-> RhsSensitivity(rhs, a.x)]
sensitivity(self, rhs, dfdv) == Sensitivities(self, rhs, adjoint(self.solver, dfdv))

\* -------------------------------------------------------------------- state

VARIABLES
    call,      \* the arguments of the call of auto_determine_solver
    defined,   \* SolverSparsePardiso.defined, SolverSparseCholeskyScikit.defined, ...
    ret,       \* what the call returned or raised (class "pending" before it ran)
    locals,    \* the flags the call computed
    self,      \* the LinSolve module's attributes
    sig_in,    \* the states of its input signals: [mat, rhs]
    sens,      \* the latest backward call: [dfdv, lam, dmat, db]
    stats,     \* calls counted: [nclassify, nwrap]
    last       \* the latest call: [op, genuine (the adjoint solves it performed)]

vars == <<call, defined, ret, locals, self, sig_in, sens, stats, last>>
classifierVars == <<call, ret, locals>>
moduleVars == <<self, sig_in, sens, stats, last>>

\* ------------------------------------------------------------ input bounds

DiagVals == {Cx(-1, 0), Cx(0, 0), Cx(1, 0)}
OffVals == {Cx(0, 0), Cx(1, 0), Cx(0, 1), Cx(0, -1)}

HasComplexValue(e) == \E i \in 1..Len(e) : \E j \in 1..Len(e[i]) : ~IsRealValue(e[i][j])

\* every (sparse, dtype) variant of the entries e; complex values need a complex dtype
Variants(e) ==
    {[sparse |-> sp, cplx |-> cx, n |-> Len(e), m |-> Len(e[1]), e |-> e] :
        sp \in BOOLEAN, cx \in {c \in BOOLEAN : HasComplexValue(e) => c}}

SquareEntries ==
    {<<<<d>>>> : d \in DiagVals}
    \cup {<<<<d1, up>>, <<lo, d2>>>> : d1 \in DiagVals, d2 \in DiagVals, up \in OffVals, lo \in OffVals}
NonSquareEntries ==
    {<<<<a, b>>>> : a \in DiagVals, b \in {Cx(0, 0), Cx(0, 1)}}
    \cup {<<<<a>>, <<b>>>> : a \in DiagVals, b \in {Cx(0, 0), Cx(0, 1)}}

ClassifierMatrices == UNION {Variants(e) : e \in SquareEntries \cup NonSquareEntries}

Defineds == [Pardiso : BOOLEAN, Scikit : BOOLEAN, CVXOPT : BOOLEAN]

Calls ==
    [A : ClassifierMatrices, isdiagonal : Opt, islowertriangular : Opt,
     isuppertriangular : Opt, ishermitian : Opt, issymmetric : Opt,
     ispositivedefinite : Opt]

Pending == Plain("pending")
NoLocals ==
    [islowertriangular |-> "pending", isuppertriangular |-> "pending",
     ishermitian |-> "pending", issymmetric |-> "pending"]

\* inputs of the LinSolve module: 2 x 2 systems
Dense(cx, e) == [sparse |-> FALSE, cplx |-> cx, n |-> 2, m |-> 2, e |-> e]
Sparse(cx, e) == [sparse |-> TRUE, cplx |-> cx, n |-> 2, m |-> 2, e |-> e]
R(a) == Cx(a, 0)
I(b) == Cx(0, b)
ModuleMatrices ==
    {Dense(FALSE, <<<<R(2), R(0)>>, <<R(0), R(4)>>>>),     \* diag([2, 4])
     Dense(FALSE, <<<<R(1), R(1)>>, <<R(0), R(-1)>>>>),    \* upper triangular
     Dense(FALSE, <<<<R(1), R(1)>>, <<R(1), R(1)>>>>),     \* singular
     Dense(TRUE, <<<<R(1), I(1)>>, <<I(1), R(1)>>>>),      \* complex symmetric
     Sparse(FALSE, <<<<R(2), R(1)>>, <<R(1), R(2)>>>>)}    \* symmetric positive definite
Vec(cx, v) == [cplx |-> cx, ndim |-> 1, cols |-> <<v>>]
Cols(cx, v, w) == [cplx |-> cx, ndim |-> 2, cols |-> <<v, w>>]
ModuleRhs ==
    {Vec(FALSE, <<R(4), R(8)>>),
     Cols(TRUE, <<R(1), I(1)>>, <<R(4), R(8)>>)}
ModuleGradients ==
    {Vec(FALSE, <<R(1), R(0)>>),
     Vec(FALSE, <<R(3), R(0)>>),
     Vec(TRUE, <<I(1), R(1)>>),
     Cols(FALSE, <<R(1), R(0)>>, <<R(3), R(0)>>)}

\* LinSolve(..., dep_tol=, hermitian=, symmetric=, solver=)
DepTols == {Norm(1, 0, 100000), Norm(1, 0, 1000)}
GivenSolvers ==
    {NoSolver, BareSolver(Plain("SolverDenseLU")),
     LDAWrapper(Plain("SolverDenseLU"), Norm(1, 0, 100000000))}
\* the installation the module runs in
ModuleDefineds == {[Pardiso |-> FALSE, Scikit |-> TRUE, CVXOPT |-> FALSE]}

\* counters stop at CountCap
CountCap == 2
Count(n, by) == IF n + by > CountCap THEN CountCap ELSE n + by

NoSens == [dfdv |-> NoVector, lam |-> NoVector, dmat |-> NoArray, db |-> NoVector]
NoCall ==
    [A |-> NoMatrix, isdiagonal |-> "None", islowertriangular |-> "None",
     isuppertriangular |-> "None", ishermitian |-> "None", issymmetric |-> "None",
     ispositivedefinite |-> "None"]

\* ------------------------------------------- the classifier as a state machine

InitClassify ==
    /\ call \in Calls
    /\ defined \in Defineds
    /\ ret = Pending
    /\ locals = NoLocals
    /\ self = prepare(LDADefaultTol, "None", "None", NoSolver)
    /\ sig_in = [mat |-> NoMatrix, rhs |-> NoVector]
    /\ sens = NoSens
    /\ stats = [nclassify |-> 0, nwrap |-> 0]
    /\ last = [op |-> "none", genuine |-> 0]

Classify ==
    /\ ret = Pending
    /\ ret' = auto_determine_solver(call.A, call.isdiagonal, call.islowertriangular, call.isuppertriangular, call.ishermitian, call.issymmetric, call.ispositivedefinite, defined)
    /\ locals' = Locals(call.A, call.isdiagonal, call.islowertriangular, call.isuppertriangular, call.ishermitian, call.issymmetric)
    /\ UNCHANGED <<call, defined, moduleVars>>

NextClassify == Classify

SpecClassify == InitClassify /\ [][NextClassify]_vars

\* ----------------------------------------- the LinSolve module as a state machine

Init ==
    /\ call = NoCall
    /\ ret = Pending
    /\ locals = NoLocals
    /\ defined \in ModuleDefineds
    /\ \E t \in DepTols, h \in Opt, sy \in Opt, sv \in GivenSolvers :
         self = prepare(t, h, sy, sv)
    /\ sig_in = [mat |-> NoMatrix, rhs |-> NoVector]
    /\ sens = NoSens
    /\ stats = [nclassify |-> 0, nwrap |-> 0]
    /\ last = [op |-> "none", genuine |-> 0]

\* the counters and the record of the call, for a forward call with matrix mat
ForwardStats(mat) ==
    [stats EXCEPT !.nclassify = Count(@, IF NeedsSolver(self) THEN 1 ELSE 0),
                  !.nwrap = Count(@, IF NeedsWrapper(self) THEN 1 ELSE 0)]

\* the forward call _response(mat, rhs) that returns
Forward ==
    \E mat \in ModuleMatrices, rhs \in ModuleRhs :
        /\ ~Singular(mat)
        /\ self' = response(self, mat, rhs, defined)
        /\ sig_in' = [mat |-> mat, rhs |-> rhs]
        /\ sens' = NoSens
        /\ stats' = ForwardStats(mat)
        /\ last' = [op |-> "forward", genuine |-> 0]
        /\ UNCHANGED <<defined, classifierVars>>

\* the forward call on a singular matrix: the solver raises, in update (nothing is
\* factorized) or in solve (after update), and self.u is not assigned
ForwardRaises ==
    \E mat \in ModuleMatrices, rhs \in ModuleRhs, inUpdate \in BOOLEAN :
        /\ Singular(mat)
        /\ self' = IF inUpdate
                   THEN [Factorized(self, mat, defined) EXCEPT !.solver = DetermineSolver(self, mat, defined)]
                   ELSE Factorized(self, mat, defined)
        /\ sig_in' = [mat |-> mat, rhs |-> rhs]
        /\ sens' = NoSens
        /\ stats' = ForwardStats(mat)
        /\ last' = [op |-> "raised", genuine |-> 0]
        /\ UNCHANGED <<defined, classifierVars>>

\* the backward call _sensitivity(dfdv), after a forward call that returned; dfdv has
\* the shape of the solution
Returns(dfdv, r) ==
    /\ self' = r.self
    /\ sens' = [dfdv |-> dfdv, lam |-> r.lam, dmat |-> r.dmat, db |-> r.db]
    /\ last' = [op |-> "backward", genuine |-> r.genuine]

Backward ==
    \E dfdv \in ModuleGradients :
        /\ last.op \in {"forward", "backward"}
        /\ dfdv.ndim = self.u.ndim
        /\ Returns(dfdv, sensitivity(self, sig_in.rhs, dfdv))
        /\ UNCHANGED <<sig_in, stats, defined, classifierVars>>

Next == Forward \/ ForwardRaises \/ Backward

Spec == Init /\ [][Next]_vars

\* ------------------------------------------------- claims on the classifier

Returned == ret # Pending
\* the call reached the symmetry step (line 63)
ReachedSymmetry ==
    Returned /\ issquare(call.A) /\ DiagonalFlag(call.A, call.isdiagonal) # "True"
\* a real matrix given Hermitian and symmetric overrides that disagree
Inconsistent ==
    /\ ~iscomplexobj(call.A)
    /\ call.ishermitian # "None" /\ call.issymmetric # "None"
    /\ call.ishermitian # call.issymmetric
\* Hermitian, by the override or else by detection (for a real matrix the symmetric
\* override stands for the Hermitian one)
IsHermitian ==
    IF call.ishermitian # "None" THEN call.ishermitian = "True"
    ELSE IF ~iscomplexobj(call.A) /\ call.issymmetric # "None" THEN call.issymmetric = "True"
    ELSE matrix_is_hermitian(call.A)
IsSymmetric ==
    IF call.issymmetric # "None" THEN call.issymmetric = "True"
    ELSE IF ~iscomplexobj(call.A) /\ call.ishermitian # "None" THEN call.ishermitian = "True"
    ELSE matrix_is_symmetric(call.A)
UniformDiagonal ==
    \/ \A i \in 1..call.A.n : GtZero(call.A.e[i][i])
    \/ \A i \in 1..call.A.n : LtZero(call.A.e[i][i])

\* C1: a non-square matrix, sparse or dense, gets the dense QR solver whatever the
\* overrides; a square matrix gets the diagonal solver whenever isdiagonal=True is
\* passed or isdiagonal is not passed and the matrix is detected diagonal, whatever
\* the other overrides; with isdiagonal=False the diagonal solver is never returned.
C1_FirstTwoSteps ==
    Returned =>
        /\ ~issquare(call.A) => ret = Plain("SolverDenseQR")
        /\ ( /\ issquare(call.A)
             /\ \/ call.isdiagonal = "True"
                \/ call.isdiagonal = "None" /\ matrix_is_diagonal(call.A) )
           => ret = Plain("SolverDiagonal")
        /\ call.isdiagonal = "False" => ret.cls # "SolverDiagonal"

\* a detected-diagonal sparse matrix whose symmetric and Hermitian overrides disagree
C1_Witness ==
    /\ ret = Plain("SolverDiagonal")
    /\ call.isdiagonal = "None" /\ Inconsistent /\ call.A.sparse /\ call.A.n = 2

\* C2: a dense square matrix not classified diagonal, with consistent overrides, gets
\* Cholesky if Hermitian with a diagonal all > 0 or all < 0, else LDL if Hermitian or
\* symmetric, else LU; the positive-definite override has no influence.
C2_DenseChoice ==
    (ReachedSymmetry /\ ~issparse(call.A) /\ ~Inconsistent) =>
        /\ ret.cls = IF IsHermitian /\ UniformDiagonal THEN "SolverDenseCholesky"
                     ELSE IF IsHermitian \/ IsSymmetric THEN "SolverDenseLDL"
                     ELSE "SolverDenseLU"
        /\ \A pd \in Opt :
             auto_determine_solver(call.A, call.isdiagonal, call.islowertriangular, call.isuppertriangular, call.ishermitian, call.issymmetric, pd, defined) = ret

\* complex symmetric, not Hermitian, detected: LDL
C2_Witness ==
    /\ ret.cls = "SolverDenseLDL" /\ ~issparse(call.A)
    /\ call.ishermitian = "None" /\ call.issymmetric = "None"
    /\ matrix_is_symmetric(call.A) /\ ~matrix_is_hermitian(call.A)
    /\ call.ispositivedefinite = "True"

SparseSolvers ==
    {"SolverSparsePardiso", "SolverSparseCholeskyScikit", "SolverSparseCholeskyCVXOPT",
     "SolverSparseLU"}

\* C3: a sparse square matrix not classified diagonal, with consistent overrides, gets
\* a sparse solver: Pardiso when available; else, when Hermitian with a diagonal all
\* > 0 or all < 0, the scikit Cholesky, or else the CVXOPT Cholesky, when available;
\* sparse LU in every remaining case.
C3_SparseChoice ==
    (ReachedSymmetry /\ issparse(call.A) /\ ~Inconsistent) =>
        /\ ret.cls \in SparseSolvers
        /\ ret.cls = IF defined.Pardiso THEN "SolverSparsePardiso"
                     ELSE IF IsHermitian /\ UniformDiagonal /\ defined.Scikit
                          THEN "SolverSparseCholeskyScikit"
                     ELSE IF IsHermitian /\ UniformDiagonal /\ defined.CVXOPT
                          THEN "SolverSparseCholeskyCVXOPT"
                     ELSE "SolverSparseLU"

\* Hermitian with a uniform-sign diagonal and no Cholesky backend: sparse LU
C3_Witness ==
    /\ ret.cls = "SolverSparseLU" /\ issparse(call.A)
    /\ IsHermitian /\ UniformDiagonal /\ call.A.n = 2
    /\ ~defined.Pardiso /\ ~defined.Scikit /\ ~defined.CVXOPT

\* C4: for a real matrix at the symmetry step, overrides for both flags that disagree
\* make the call fail and return no solver; one override alone gives the other flag
\* the same value; with neither, both take the detected symmetry; so whenever a
\* solver is returned the two flags are equal.
C4_RealSymmetry ==
    (ReachedSymmetry /\ ~iscomplexobj(call.A)) =>
        /\ Inconsistent => ret = Raised("AssertionError")
        /\ (call.ishermitian # "None" /\ call.issymmetric = "None")
           => (locals.ishermitian = call.ishermitian /\ locals.issymmetric = call.ishermitian)
        /\ (call.ishermitian = "None" /\ call.issymmetric # "None")
           => (locals.ishermitian = call.issymmetric /\ locals.issymmetric = call.issymmetric)
        /\ (call.ishermitian = "None" /\ call.issymmetric = "None")
           => /\ locals.ishermitian = PyBool(matrix_is_symmetric(call.A))
              /\ locals.issymmetric = PyBool(matrix_is_symmetric(call.A))
        /\ ret.cls # "AssertionError"
           => /\ locals.ishermitian = locals.issymmetric
              /\ ret.cls = "SolverSparsePardiso" => ret.symmetric = ret.hermitian

\* the call failed on disagreeing overrides
C4_Witness ==
    /\ ret = Raised("AssertionError")
    /\ call.ishermitian = "True" /\ call.issymmetric = "False"
    /\ call.isdiagonal = "False" /\ matrix_is_symmetric(call.A)

AllSolvers ==
    SparseSolvers \cup
    {"SolverDenseQR", "SolverDiagonal", "SolverDenseCholesky", "SolverDenseLDL",
     "SolverDenseLU"}

\* C10: for a square matrix not classified diagonal the result is the same for every
\* value of islowertriangular and isuppertriangular (which also switch the dense
\* detection on and off); no triangular solver is returned; for a sparse matrix the
\* triangular flags are set by an explicit override only.
C10_TriangularIgnored ==
    ReachedSymmetry =>
        /\ \A lt \in Opt, ut \in Opt :
             auto_determine_solver(call.A, call.isdiagonal, lt, ut, call.ishermitian, call.issymmetric, call.ispositivedefinite, defined) = ret
        /\ ret.cls \in AllSolvers \cup {"AssertionError"}
        /\ issparse(call.A) =>
             /\ locals.islowertriangular = "True" <=> call.islowertriangular = "True"
             /\ locals.isuppertriangular = "True" <=> call.isuppertriangular = "True"

\* a dense matrix detected lower triangular, classified by its symmetry
C10_Witness ==
    /\ ReachedSymmetry /\ ~issparse(call.A)
    /\ call.islowertriangular = "None" /\ locals.islowertriangular = "True"
    /\ locals.isuppertriangular = "False"
    /\ ret.cls = "SolverDenseLU"

\* ---------------------------------------------------- claims on the module

\* A x = b and A^T x = b, column by column
Solves(A, x, b) ==
    /\ Len(x.cols) = Len(b.cols)
    /\ \A c \in 1..Len(b.cols) : MatVec(A.e, x.cols[c]) = b.cols[c]
SolvesTransposed(A, x, b) ==
    /\ Len(x.cols) = Len(b.cols)
    /\ \A c \in 1..Len(b.cols) : MatVec(TransposeRows(A.e), x.cols[c]) = b.cols[c]
\* sum over the columns c of -lam[c][i] * conj(u[c][j])
MinusOuter(lam, u, i, j) ==
    CSum([c \in 1..Len(u.cols) |-> CNeg(CMul(lam.cols[c][i], CConj(u.cols[c][j])))], Len(u.cols))
Returned_u == last.op \in {"forward", "backward"}

\* C5: after a backward call with output gradient dfdx, lam solves A^T lam = dfdx; the
\* rhs sensitivity is lam, its real part when rhs is real-valued; for a dense matrix
\* the matrix sensitivity is -lam (outer) conj(x) summed over the columns, its real
\* part when A is real-valued. For A = diag([2,4]), rhs = [4,8]: x = [2,2], and
\* dfdx = [1,0] gives lam = [0.5,0] and the matrix sensitivity [[-1,-1],[0,0]].
C5_Sensitivities ==
    /\ ( /\ Returned_u
         /\ sig_in.mat = Dense(FALSE, <<<<R(2), R(0)>>, <<R(0), R(4)>>>>)
         /\ sig_in.rhs = Vec(FALSE, <<R(4), R(8)>>) )
       => /\ self.u.cols = <<<<R(2), R(2)>>>>
          /\ sens.dfdv = Vec(FALSE, <<R(1), R(0)>>)
             => /\ sens.lam.cols = <<<<Norm(1, 0, 2), R(0)>>>>
                /\ sens.dmat.e = <<<<R(-1), R(-1)>>, <<R(0), R(0)>>>>
    /\ last.op = "backward"
       => /\ SolvesTransposed(sig_in.mat, sens.lam, sens.dfdv)
          /\ sens.db.cols = IF sig_in.rhs.cplx THEN sens.lam.cols
                            ELSE [c \in 1..Len(sens.lam.cols) |-> VReal(sens.lam.cols[c])]
          /\ ~sig_in.mat.sparse
             => /\ sens.dmat.kind = "ndarray"
                /\ \A i \in 1..2, j \in 1..2 :
                     sens.dmat.e[i][j] =
                        IF sig_in.mat.cplx THEN MinusOuter(sens.lam, self.u, i, j)
                        ELSE CReal(MinusOuter(sens.lam, self.u, i, j))

\* the scenario A = diag([2,4]), rhs = [4,8], dfdx = [1,0]
C5_Witness ==
    /\ last.op = "backward"
    /\ sig_in.mat = Dense(FALSE, <<<<R(2), R(0)>>, <<R(0), R(4)>>>>)
    /\ sig_in.rhs = Vec(FALSE, <<R(4), R(8)>>)
    /\ sens.dfdv = Vec(FALSE, <<R(1), R(0)>>)
    /\ sens.dmat.e = <<<<R(-1), R(-1)>>, <<R(0), R(0)>>>>

\* the step of C6, on one call
C6_Step ==
    /\ last'.op = "forward"
       => /\ self'.solver.mat = sig_in'.mat
          /\ self'.solver.factorized <=> self.solver.mat # sig_in'.mat
          /\ Solves(sig_in'.mat, self'.u, sig_in'.rhs)
    /\ last'.op = "backward"
       => /\ sig_in' = sig_in
          /\ self'.solver.mat = sig_in.mat
          /\ self'.u = self.u
          /\ Solves(sig_in.mat, self'.u, sig_in.rhs)
          /\ SolvesTransposed(sig_in.mat, sens'.lam, sens'.dfdv)
\* C6: every forward call that returns leaves the wrapper holding a factorization of
\* the matrix it was given, made anew exactly when that matrix differs from the last
\* one factorized, and a solution of that matrix and right-hand side; every backward
\* call solves the adjoint system of the latest forward call's matrix and keeps the
\* solution that call recorded.
C6_FactorizationCurrent == [][C6_Step]_vars

\* a backward call after a forward call whose update reused the factorization
C6_Witness ==
    /\ last.op = "backward"
    /\ ~self.solver.factorized
    /\ self.solver.mat = sig_in.mat
    /\ Solves(sig_in.mat, self.u, sig_in.rhs)

\* col = k*b for a scalar k # 0
ScalarMultiple(b, col) ==
    /\ VDot(b, b) # Zero
    /\ DependenceFactor(b, col) # Zero
    /\ col = VScale(DependenceFactor(b, col), b)

\* the step of C7, on one call
C7_Step ==
    /\ (last'.op = "backward" /\ sens'.dfdv.ndim = 1)
       => /\ (\E e \in self.solver.cache : ScalarMultiple(e[1], sens'.dfdv.cols[1]))
             => /\ last'.genuine = 0
                /\ self'.solver.cache = self.solver.cache
                /\ \A e \in self.solver.cache :
                     ScalarMultiple(e[1], sens'.dfdv.cols[1])
                     => sens'.lam.cols[1] = VScale(DependenceFactor(e[1], sens'.dfdv.cols[1]), e[2])
          /\ self.solver.cache = {}
             => /\ last'.genuine = 1
                /\ self'.solver.cache = {<<sens'.dfdv.cols[1], sens'.lam.cols[1]>>}
    /\ last'.op = "forward"
       => self'.solver.cache = IF sig_in'.mat # self.solver.mat THEN {} ELSE self.solver.cache
    /\ \A e \in self'.solver.cache :
         MatVec(TransposeRows(self'.solver.mat.e), e[2]) = e[1]
\* C7: a backward call whose right-hand side is k*b, k # 0, for a b solved before
\* against the same factorization returns k times that solution and performs no
\* genuine solve; a forward call keeps the cache when the matrix is the one
\* factorized and empties it when it is not; with an empty cache a genuine solve is
\* performed; a cached solution always belongs to the current factorization.
C7_DependentSolves == [][C7_Step]_vars

\* b = [1,0] was solved, then 3b was served from the cache: one genuine solve in all
C7_Witness ==
    /\ last.op = "backward" /\ last.genuine = 0
    /\ sens.dfdv = Vec(FALSE, <<R(3), R(0)>>)
    /\ Cardinality(self.solver.cache) = 1
    /\ \E e \in self.solver.cache :
         /\ e[1] = <<R(1), R(0)>>
         /\ sens.lam.cols[1] = VScale(R(3), e[2])

\* C8: the wrapper LinSolve creates around its solver uses the dep_tol given at
\* construction as its tolerance.
C8_ToleranceConfigured ==
    stats.nwrap = 1 => self.solver.tol = self.dep_tol

\* what every call keeps once a forward call has run; hermitianKept is the claim on
\* self.ishermitian
C9_Kept(hermitianKept) ==
    /\ stats'.nclassify # stats.nclassify => (last.op = "none" /\ self.solver = NoSolver)
    /\ stats'.nwrap # stats.nwrap => (last.op = "none" /\ ~self.solver.wrapped)
    /\ stats'.nclassify <= 1 /\ stats'.nwrap <= 1
    /\ last'.op # "none" => self'.solver.wrapped
    /\ last.op # "none"
       => /\ stats' = stats
          /\ self'.solver.solver = self.solver.solver
          /\ self'.solver.tol = self.solver.tol
          /\ hermitianKept

\* C9 as stated: the classifier runs in the first forward call only, and only when no
\* solver was given; the solver is wrapped once; every later call keeps the wrapper,
\* the solver family and the Hermitian flag.
C9_Original == [][C9_Kept(self'.ishermitian = self.ishermitian)]_vars

\* C9, amended: as stated, but a later forward call with a real-valued matrix sets the
\* Hermitian flag to the symmetric override when one was given at construction.
C9_SelectedOnce ==
    [][C9_Kept(self'.ishermitian =
                 IF /\ last'.op \in {"forward", "raised"}
                    /\ ~sig_in'.mat.cplx
                    /\ self.issymmetric # "None"
                 THEN self.issymmetric ELSE self.ishermitian)]_vars

\* the solver chosen for a diagonal first matrix, kept for a matrix that is not diagonal
C9_Witness ==
    /\ last.op = "forward"
    /\ self.solver.solver.cls = "SolverDiagonal"
    /\ ~matrix_is_diagonal(sig_in.mat)
    /\ stats.nclassify = 1 /\ stats.nwrap = 1

====
